---- MODULE Spec2Model ----
(***************************************************************************)
(* Model of src/main.cpp: main() and main_loop(), the frame-exchange loop  *)
(* between the Realsense pipeline (frame source), the hardware encoder     *)
(* (hve_send_frame / hve_receive_packet) and the output file (sink).       *)
(*                                                                         *)
(* The program is single threaded; pc is the position of that thread.      *)
(* The encoder, the camera and the file system are the environment: their  *)
(* answers are drawn with \E where the code calls them.                    *)
(***************************************************************************)
EXTENDS Integers, Sequences, FiniteSets

\* ------------------------------------------------------------------ bounds
MaxArgc == 6        \* argc ranges over 1..MaxArgc
MaxSeconds == 1     \* <seconds> ranges over -1..MaxSeconds
MaxFramerate == 2   \* <framerate> ranges over -1..MaxFramerate
MaxBurst == 3       \* packets an encoder makes ready on one accepted frame
MaxLag == 1         \* packets an encoder holds back until end-of-stream

\* ------------------------------------------------------- program constants
WarmupFrames == 10      \* for (auto i = 0; i < 10; ++i) wait_for_frames()
MinArgc == 6            \* if(argc < 6) ... return -1
ExitBadArgs == 1        \* return 1
ExitNoFile == 2         \* return 2
ExitNoEncoder == 3      \* return 3
ExitCompleted == 0      \* return 0
UsageFramerate == 30    \* " 640 360 30 5" in the usage text

HVE_OK == "HVE_OK"
HVE_ERROR == "HVE_ERROR"
NULL == 0               \* the NULL packet / NULL data pointer
NoExit == -1            \* main() has not returned yet
Uninit == "uninit"      \* int failed; is declared without initializer

\* -------------------------------------------------------------- the inputs
\* <seconds, framerate> pairs explored with every encoder
SmallInputs == (-1..MaxSeconds) \X (-1..MaxFramerate)
\* one second at the framerate of the usage text: 30 frames
UsageInput == <<1, UsageFramerate>>
Inputs == SmallInputs \cup {UsageInput}

\* Encoders: "any" answers every call nondeterministically; "one_per_two"
\* makes one packet ready on every second accepted frame and two more on
\* end-of-stream. Both may fail any call.
EncoderKinds(inp) == IF inp \in SmallInputs THEN {"any", "one_per_two"} ELSE {"one_per_two"}

VARIABLES
    pc,            \* position of the thread in main() / main_loop()
    argc,          \* main's argc
    input,         \* user_input: <<seconds, framerate>> once parsed
    exit_code,     \* value returned by main(), NoExit while running
    out_open,      \* out_file is open
    status,        \* main's `status` (meaningful once hist.returned)
    printed,       \* "Finished successfully." was printed
    frames,        \* main_loop: const int frames
    f,             \* main_loop: int f
    i,             \* main_loop: warm-up loop counter
    failed,        \* main_loop: int failed
    packet,        \* main_loop: AVPacket *packet (id of the packet, NULL = 0)
    frame_data,    \* main_loop: frame.data[0] (number of the pulled frame, NULL = 0)
    enc_kind,      \* encoder: which behaviour hve_init produced ("none" before)
    enc_ready,     \* encoder: packets ready for hve_receive_packet
    enc_lag,       \* encoder: packets held back until end-of-stream
    enc_accepted,  \* encoder: frames accepted so far
    enc_eos,       \* encoder: end-of-stream was accepted
    emitted,       \* packets the encoder has returned, in order
    sink,          \* packets written to out_file, in order
    pulls,         \* wait_for_frames() calls so far
    hist           \* observations of the run (counters of calls and results)

mainVars == <<argc, input, exit_code, out_open, status, printed>>
loopVars == <<frames, f, i, failed, packet, frame_data>>
encVars == <<enc_kind, enc_ready, enc_lag, enc_accepted, enc_eos, emitted>>
vars == <<pc, mainVars, loopVars, encVars, sink, pulls, hist>>

\* hist fields:
\*   submits        hve_send_frame(he, &frame) calls (line 119)
\*   eos_submits    hve_send_frame(he, NULL) calls (line 139)
\*   eos_result     result of the end-of-stream submission
\*   polls          hve_receive_packet calls (lines 125 and 141)
\*   send_fail_at   k when the k-th frame submission failed, else 0
\*   drain_fail_at  k when a poll of cycle k reported HVE_ERROR, else 0
\*   flush_failed   a poll of the flush drain reported HVE_ERROR
\*   empty_seen     since the last submission a poll said "no packet ready"
\*   cycle_polls    polls since the last submission
\*   cycle_writes   writes since the last submission
\*   writes_loop    writes at line 128
\*   writes_flush   writes at line 144
\*   emitted_at_eos Len(emitted) when the end-of-stream was submitted
\*   pulls_at_fail  pulls when the encoder first reported a failure, else -1
\*   polls_before_eos  polls between the last frame submission and the
\*                     end-of-stream submission
\*   empty_before_eos  empty_seen when the end-of-stream was submitted
\*   pulls_at_eos, submits_at_eos  pulls and submits at that moment
\*   fail_cycle_writes writes of the cycle before its poll reported HVE_ERROR
\*   cycle_ready    packets the encoder had ready after the last submission
\*   open_failed    the output file could not be opened
\*   init_failed    hve_init returned NULL
\*   entered        main_loop was called
\*   returned       main_loop has returned
\*   ready_at_eos, lag_at_eos  packets the encoder had ready / held back
\*                  when the end-of-stream was submitted
\*   f_at_eos       f when the per-frame loop was left
\*   submitted      the frames given to hve_send_frame, in order
InitHist ==
    [submits |-> 0, eos_submits |-> 0, eos_result |-> "none", polls |-> 0,
     send_fail_at |-> 0, drain_fail_at |-> 0, flush_failed |-> FALSE,
     empty_seen |-> FALSE, cycle_polls |-> 0, cycle_writes |-> 0,
     writes_loop |-> 0, writes_flush |-> 0, emitted_at_eos |-> -1,
     pulls_at_fail |-> -1, polls_before_eos |-> -1, empty_before_eos |-> FALSE,
     pulls_at_eos |-> -1, submits_at_eos |-> -1, fail_cycle_writes |-> -1,
     cycle_ready |-> 0, open_failed |-> FALSE, init_failed |-> FALSE,
     entered |-> FALSE, returned |-> FALSE,
     ready_at_eos |-> -1, lag_at_eos |-> -1, f_at_eos |-> -1, submitted |-> <<>>]

Init ==
    /\ pc = "args"
    /\ argc \in 1..MaxArgc
    /\ input = <<0, 0>>
    /\ exit_code = NoExit
    /\ out_open = FALSE
    /\ status = FALSE
    /\ printed = FALSE
    /\ frames = 0
    /\ f = 0
    /\ i = 0
    /\ failed = Uninit
    /\ packet = NULL
    /\ frame_data = NULL
    /\ enc_kind = "none"
    /\ enc_ready = 0
    /\ enc_lag = 0
    /\ enc_accepted = 0
    /\ enc_eos = FALSE
    /\ emitted = <<>>
    /\ sink = <<>>
    /\ pulls = 0
    /\ hist = InitHist

\* ------------------------------------------------------------------ main()

\* a bug: the file name argument is not counted
ArgsRejected_OffByOne(n) == n < MinArgc - 1

\* process_user_input: -1 when fewer than five positional arguments
ArgsRejected(n) == n < MinArgc

\* main, line 55-56, and process_user_input
ProcessUserInput ==
    /\ pc = "args"
    /\ IF ArgsRejected(argc)
       THEN /\ exit_code' = ExitBadArgs
            /\ pc' = "exit"
            /\ UNCHANGED input
       ELSE /\ \E inp \in Inputs : input' = inp
            /\ pc' = "open"
            /\ UNCHANGED exit_code
    /\ UNCHANGED <<argc, out_open, status, printed, loopVars, encVars, sink, pulls, hist>>

\* main, line 58-63: open the output file
OpenOutFile ==
    /\ pc = "open"
    /\ \E ok \in BOOLEAN :
        /\ IF ok
           THEN /\ out_open' = TRUE
                /\ pc' = "hve_init"
                /\ UNCHANGED exit_code
           ELSE /\ exit_code' = ExitNoFile
                /\ pc' = "exit"
                /\ UNCHANGED out_open
        /\ hist' = [hist EXCEPT !.open_failed = ~ok]
    /\ UNCHANGED <<argc, input, status, printed, loopVars, encVars, sink, pulls>>

\* target count: const int frames = input.seconds * input.framerate
TargetCount(inp) == inp[1] * inp[2]

\* packets a fresh encoder of kind k holds back until end-of-stream
InitialLag(k) == IF k = "one_per_two" THEN 2 ELSE 0

\* main, line 65-70: start the camera, create the encoder, enter main_loop
\* (line 88: frames is computed on entry)
HveInit ==
    /\ pc = "hve_init"
    /\ \/ /\ exit_code' = ExitNoEncoder
          /\ out_open' = FALSE
          /\ pc' = "exit"
          /\ hist' = [hist EXCEPT !.init_failed = TRUE]
          /\ UNCHANGED <<frames, encVars>>
       \/ /\ \E k \in EncoderKinds(input) :
                /\ enc_kind' = k
                /\ enc_lag' = InitialLag(k)
          /\ frames' = TargetCount(input)
          /\ pc' = "warmup"
          /\ hist' = [hist EXCEPT !.entered = TRUE]
          /\ UNCHANGED <<exit_code, out_open, enc_ready, enc_accepted, enc_eos, emitted>>
    /\ UNCHANGED <<argc, input, status, printed, f, i, failed, packet, frame_data, sink, pulls>>

\* -------------------------------------------------------------- the encoder
\* (hve.h is an external library: only its calls are in this repository)

\* hve_send_frame(he, &frame) accepted the frame: the encoder states it may
\* be in afterwards, as <<ready, lag>>
EncAccept(kind, ready, lag, accepted) ==
    IF kind = "one_per_two"
    THEN {<<ready + (IF (accepted + 1) % 2 = 0 THEN 1 ELSE 0), lag>>}
    ELSE {<<ready + r, l>> : r \in 0..MaxBurst, l \in 0..MaxLag}

\* hve_send_frame(he, NULL) accepted: everything held back becomes ready
EncFlush(ready, lag) == <<ready + lag, 0>>

\* the results hve_send_frame may return
SendResults == {HVE_OK, HVE_ERROR}

\* hve_receive_packet: the answers the encoder may give, as
\* <<packet, failed>>; a packet only when one is ready, "no packet ready"
\* (NULL, HVE_OK) only when none is, an error (NULL, HVE_ERROR) at any time
ReceiveResults(ready, next_id) ==
    (IF ready > 0 THEN {<<next_id, HVE_OK>>} ELSE {<<NULL, HVE_OK>>})
        \cup {<<NULL, HVE_ERROR>>}

\* ------------------------------------------------------------- main_loop()

\* a change: the 30 frames the comment at line 94 speaks of
WarmupCond_AsCommented(n) == n < 3 * WarmupFrames

\* line 95: for (auto i = 0; i < 10; ++i) realsense.wait_for_frames();
WarmupCond(n) == n < WarmupFrames

Warmup ==
    /\ pc = "warmup"
    /\ IF WarmupCond(i)
       THEN /\ pulls' = pulls + 1
            /\ i' = i + 1
            /\ UNCHANGED <<pc, f>>
       ELSE /\ f' = 0
            /\ pc' = "loop_test"
            /\ UNCHANGED <<pulls, i>>
    /\ UNCHANGED <<mainVars, frames, failed, packet, frame_data, encVars, sink, hist>>

\* a bug: f <= frames, one cycle too many
LoopCond_OffByOne(ff, fr) == ff <= fr

\* line 97: for(f = 0; f < frames; ++f)
LoopCond(ff, fr) == ff < fr

LoopTest ==
    /\ pc = "loop_test"
    /\ pc' = IF LoopCond(f, frames) THEN "pull" ELSE "flush_send"
    /\ UNCHANGED <<mainVars, loopVars, encVars, sink, pulls, hist>>

\* a bug: the data pointer is set for the first frame only
FrameData_FirstOnly(old, new) == IF old = NULL THEN new ELSE old

\* line 114: frame.data[0] = (uint8_t*) c_frame.get_data();
FrameData(old, new) == new

\* line 99-117: pull one frame and point the ffmpeg frame at its data
Pull ==
    /\ pc = "pull"
    /\ pulls' = pulls + 1
    /\ frame_data' = FrameData(frame_data, pulls + 1)
    /\ pc' = "send"
    /\ UNCHANGED <<mainVars, frames, f, i, failed, packet, encVars, sink, hist>>

\* a bug: the result of the submission is not looked at
SendFailed_Ignored(r) == FALSE

\* line 119: if(hve_send_frame(he, &frame) != HVE_OK)
SendFailed(r) == r # HVE_OK

\* a bug: a failed submission returns at once, skipping the flush
AfterSendFailed_Return == "return"

\* a bug: a failed submission is reported but the cycle goes on
AfterSendFailed_Continue == "receive"

\* line 122: break leaves the per-frame loop for the flush
AfterSendFailed == "flush_send"

\* line 119-123: submit the frame
SendFrame ==
    /\ pc = "send"
    /\ \E r \in SendResults :
        /\ IF r = HVE_OK
           THEN /\ \E st \in EncAccept(enc_kind, enc_ready, enc_lag, enc_accepted) :
                     /\ enc_ready' = st[1]
                     /\ enc_lag' = st[2]
                /\ enc_accepted' = enc_accepted + 1
           ELSE UNCHANGED <<enc_ready, enc_lag, enc_accepted>>
        /\ pc' = IF SendFailed(r) THEN AfterSendFailed ELSE "receive"
        /\ hist' = [hist EXCEPT
                      !.cycle_ready = enc_ready',
                      !.submits = @ + 1,
                      !.submitted = Append(@, frame_data),
                      !.send_fail_at = IF r # HVE_OK /\ @ = 0 THEN hist.submits + 1 ELSE @,
                      !.pulls_at_fail = IF r # HVE_OK /\ @ = -1 THEN pulls ELSE @,
                      !.empty_seen = FALSE,
                      !.cycle_polls = 0,
                      !.cycle_writes = 0]
    /\ UNCHANGED <<mainVars, loopVars, enc_kind, enc_eos, emitted, sink, pulls>>

\* line 125: while( (packet=hve_receive_packet(he, &failed)) )
Receive ==
    /\ pc = "receive"
    /\ \E res \in ReceiveResults(enc_ready, Len(emitted) + 1) :
        /\ packet' = res[1]
        /\ failed' = res[2]
        /\ IF res[1] # NULL
           THEN /\ emitted' = Append(emitted, res[1])
                /\ enc_ready' = enc_ready - 1
           ELSE UNCHANGED <<emitted, enc_ready>>
        /\ pc' = IF res[1] # NULL THEN "write" ELSE "check_failed"
        /\ hist' = [hist EXCEPT
                      !.polls = @ + 1,
                      !.cycle_polls = @ + 1,
                      !.empty_seen = @ \/ (res = <<NULL, HVE_OK>>),
                      !.drain_fail_at = IF res[2] = HVE_ERROR /\ @ = 0 THEN hist.submits ELSE @,
                      !.fail_cycle_writes = IF res[2] = HVE_ERROR /\ @ = -1
                                            THEN hist.cycle_writes ELSE @,
                      !.pulls_at_fail = IF res[2] = HVE_ERROR /\ @ = -1 THEN pulls ELSE @]
    /\ UNCHANGED <<mainVars, frames, f, i, frame_data, enc_kind, enc_lag, enc_accepted,
                   enc_eos, sink, pulls>>

\* a bug: the write is skipped and the packet is lost
WritePacket_Drop(s, p) == s

\* a bug: the packet is put before what was written so far
WritePacket_Prepend(s, p) == <<p>> \o s

\* out_file.write((const char*)packet->data, packet->size)
WritePacket(s, p) == Append(s, p)

\* a bug: `if` instead of `while`, one packet per cycle
AfterWrite_Once == "check_failed"

\* line 129: end of the while body, back to the poll
AfterWrite == "receive"

\* line 126-129: the body of the drain loop
Write ==
    /\ pc = "write"
    /\ sink' = WritePacket(sink, packet)
    /\ pc' = AfterWrite
    /\ hist' = [hist EXCEPT !.writes_loop = @ + 1, !.cycle_writes = @ + 1]
    /\ UNCHANGED <<mainVars, loopVars, encVars, pulls>>

\* a bug: the encode failure of the drain is not looked at
EncodeFailed_Ignored(fl) == FALSE

\* line 131: if(failed != HVE_OK)
EncodeFailed(fl) == fl # HVE_OK

\* a bug: the loop counter is not advanced
NextF_Stuck(ff) == ff

\* line 97: ++f
NextF(ff) == ff + 1

\* line 131-136: after the drain loop; ++f at the end of the iteration
CheckFailed ==
    /\ pc = "check_failed"
    /\ IF EncodeFailed(failed)
       THEN /\ pc' = "flush_send"
            /\ UNCHANGED f
       ELSE /\ f' = NextF(f)
            /\ pc' = "loop_test"
    /\ UNCHANGED <<mainVars, frames, i, failed, packet, frame_data, encVars, sink, pulls, hist>>

\* line 139: hve_send_frame(he, NULL); the result is not looked at
FlushSend ==
    /\ pc = "flush_send"
    /\ \E r \in SendResults :
        /\ IF r = HVE_OK
           THEN /\ enc_ready' = EncFlush(enc_ready, enc_lag)[1]
                /\ enc_lag' = EncFlush(enc_ready, enc_lag)[2]
                /\ enc_eos' = TRUE
           ELSE UNCHANGED <<enc_ready, enc_lag, enc_eos>>
        /\ hist' = [hist EXCEPT
                      !.eos_submits = @ + 1,
                      !.eos_result = r,
                      !.emitted_at_eos = Len(emitted),
                      !.pulls_at_eos = pulls,
                      !.submits_at_eos = hist.submits,
                      !.ready_at_eos = enc_ready,
                      !.lag_at_eos = enc_lag,
                      !.f_at_eos = f,
                      !.cycle_ready = enc_ready',
                      !.polls_before_eos = hist.cycle_polls,
                      !.empty_before_eos = hist.empty_seen,
                      !.empty_seen = FALSE,
                      !.cycle_polls = 0,
                      !.cycle_writes = 0]
    /\ pc' = "flush_receive"
    /\ UNCHANGED <<mainVars, loopVars, enc_kind, enc_accepted, emitted, sink, pulls>>

\* line 141: while( (packet=hve_receive_packet(he, &failed)) )
FlushReceive ==
    /\ pc = "flush_receive"
    /\ \E res \in ReceiveResults(enc_ready, Len(emitted) + 1) :
        /\ packet' = res[1]
        /\ failed' = res[2]
        /\ IF res[1] # NULL
           THEN /\ emitted' = Append(emitted, res[1])
                /\ enc_ready' = enc_ready - 1
           ELSE UNCHANGED <<emitted, enc_ready>>
        /\ pc' = IF res[1] # NULL THEN "flush_write" ELSE "return"
        /\ hist' = [hist EXCEPT
                      !.polls = @ + 1,
                      !.cycle_polls = @ + 1,
                      !.empty_seen = @ \/ (res = <<NULL, HVE_OK>>),
                      !.flush_failed = @ \/ (res[2] = HVE_ERROR)]
    /\ UNCHANGED <<mainVars, frames, f, i, frame_data, enc_kind, enc_lag, enc_accepted,
                   enc_eos, sink, pulls>>

\* a bug: `if` instead of `while`, the flush drains one packet only
AfterFlushWrite_Once == "return"

\* line 145: end of the while body, back to the poll
AfterFlushWrite == "flush_receive"

\* line 142-145: the body of the flush drain loop
FlushWrite ==
    /\ pc = "flush_write"
    /\ sink' = WritePacket(sink, packet)
    /\ pc' = AfterFlushWrite
    /\ hist' = [hist EXCEPT !.writes_flush = @ + 1, !.cycle_writes = @ + 1]
    /\ UNCHANGED <<mainVars, loopVars, encVars, pulls>>

\* a change: an encode failure of the flush drain makes the run a failure
ReturnValue_FlushAware(ff, fr) == ff = fr /\ failed = HVE_OK

\* a bug: >= instead of ==
ReturnValue_AtLeast(ff, fr) == ff >= fr

\* line 151: return f==frames;
ReturnValue(ff, fr) == ff = fr

\* line 151, and line 70: bool status=main_loop(...)
Return ==
    /\ pc = "return"
    /\ status' = ReturnValue(f, frames)
    /\ pc' = "close"
    /\ hist' = [hist EXCEPT !.returned = TRUE]
    /\ UNCHANGED <<argc, input, exit_code, out_open, printed, loopVars, encVars, sink, pulls>>

\* ------------------------------------------------------- main(), the end

\* line 72-74: hve_close(hardware_encoder); out_file.close();
Close ==
    /\ pc = "close"
    /\ out_open' = FALSE
    /\ pc' = "report"
    /\ UNCHANGED <<argc, input, exit_code, status, printed, loopVars, encVars, sink, pulls, hist>>

\* line 76: if(status) the success message is printed
Reported(st) == st = TRUE

\* a change: the failure of the run is reported in the exit status
ExitAfterRun_Propagate(st) == IF st THEN ExitCompleted ELSE ExitCompleted + 4

\* line 82: return 0
ExitAfterRun(st) == ExitCompleted

\* line 76-82
Report ==
    /\ pc = "report"
    /\ printed' = Reported(status)
    /\ exit_code' = ExitAfterRun(status)
    /\ pc' = "exit"
    /\ UNCHANGED <<argc, input, out_open, status, loopVars, encVars, sink, pulls, hist>>

Next ==
    \/ ProcessUserInput
    \/ OpenOutFile
    \/ HveInit
    \/ Warmup
    \/ LoopTest
    \/ Pull
    \/ SendFrame
    \/ Receive
    \/ Write
    \/ CheckFailed
    \/ FlushSend
    \/ FlushReceive
    \/ FlushWrite
    \/ Return
    \/ Close
    \/ Report

Spec == Init /\ [][Next]_vars

\* The one thread of the program keeps running: every call it makes (the
\* blocking wait_for_frames, the encoder calls, the file write) returns.
FairSpec == Spec /\ WF_vars(Next)

\* ------------------------------------------------------------ the claims

\* the frame submissions and drain polls of the run all succeeded so far
NoLoopFailure == hist.send_fail_at = 0 /\ hist.drain_fail_at = 0

\* positions inside the body of the per-frame loop
InLoopBody == pc \in {"pull", "send", "receive", "write", "check_failed"}

\* C1: in every run of main_loop the flush stage executes: the end-of-stream
\* marker is submitted exactly once (never twice, and main_loop does not
\* return without it), no frame is pulled or submitted after it, and every
\* packet the encoder returned during the flush drain is in the sink.
C1_FlushAlwaysRuns ==
    /\ hist.eos_submits <= 1
    /\ hist.eos_submits = 1 =>
          /\ pulls = hist.pulls_at_eos
          /\ hist.submits = hist.submits_at_eos
          /\ ~InLoopBody
    /\ hist.returned =>
          /\ hist.eos_submits = 1
          /\ hist.writes_flush = Len(emitted) - hist.emitted_at_eos
          /\ \A j \in (hist.emitted_at_eos + 1)..Len(emitted) :
                \E n \in 1..Len(sink) : sink[n] = emitted[j]

\* C1 witness: a run whose frame submission failed has returned, and the
\* flush drain wrote packets
C1_Witness ==
    /\ hist.returned
    /\ hist.send_fail_at >= 1
    /\ hist.writes_flush >= 1

\* C2: main_loop returns true exactly when the per-frame loop was not left
\* early, i.e. no frame submission failed and no drain poll of the loop
\* reported an encode failure.
C2_SuccessIffLoopCompleted ==
    hist.returned => (status <=> NoLoopFailure)

\* C3: if the k-th frame submission fails then exactly k submissions occur,
\* no frame is pulled afterwards, no drain poll is made between the failed
\* submission and the end-of-stream submission, the flush runs and main_loop
\* returns false.
C3_SubmissionFailureStopsLoop ==
    hist.send_fail_at >= 1 =>
        /\ hist.send_fail_at <= frames
        /\ hist.submits = hist.send_fail_at
        /\ pulls = hist.pulls_at_fail
        /\ hist.drain_fail_at = 0
        /\ pc = "flush_send" => hist.cycle_polls = 0
        /\ hist.eos_submits >= 1 => hist.polls_before_eos = 0
        /\ pc \in {"flush_send", "flush_receive", "flush_write", "return",
                   "close", "report", "exit"}
        /\ hist.returned => hist.eos_submits = 1 /\ status = FALSE

\* C3 witness: the 10th submission of a 30 frame run failed and the run
\* has returned
C3_Witness ==
    /\ hist.returned
    /\ frames = 30
    /\ hist.send_fail_at = 10
    /\ hist.submits = 10

\* C4 as stated: after a submission failure at frame k the loop has made no
\* more than k submission attempts, and strictly fewer than N.
C4_Original ==
    hist.send_fail_at >= 1 =>
        /\ hist.submits <= hist.send_fail_at
        /\ hist.submits < frames

\* C4 amended: after a submission failure at frame k the loop has made
\* exactly k submission attempts; that is at most N, and fewer than N
\* only when k < N.
C4_ExactlyKAttempts ==
    hist.send_fail_at >= 1 =>
        /\ hist.submits = hist.send_fail_at
        /\ hist.submits <= frames
        /\ hist.send_fail_at < frames => hist.submits < frames

\* C4 witness: the last submission (k = N) failed and the run has returned
C4_Witness ==
    /\ hist.returned
    /\ frames >= 2
    /\ hist.send_fail_at = frames
    /\ hist.submits = frames

\* C5: if a drain poll of cycle k reports an encode failure, no further
\* frame is pulled or submitted, the flush runs and main_loop returns
\* false, for every k up to the last cycle; the packets returned earlier in
\* that cycle are in the sink when the failure is seen.
C5_EncodeFailureStopsLoop ==
    hist.drain_fail_at >= 1 =>
        /\ hist.drain_fail_at <= frames
        /\ hist.submits = hist.drain_fail_at
        /\ pulls = hist.pulls_at_fail
        /\ Len(sink) >= hist.writes_loop
        /\ pc = "check_failed" =>
              /\ sink = emitted
              /\ hist.cycle_writes = hist.fail_cycle_writes
        /\ pc \in {"check_failed", "flush_send", "flush_receive", "flush_write",
                   "return", "close", "report", "exit"}
        /\ hist.returned => hist.eos_submits = 1 /\ status = FALSE

\* C5 witness: a poll of the last cycle failed after two packets of that
\* cycle had been written, and the run has returned
C5_Witness ==
    /\ hist.returned
    /\ frames >= 2
    /\ hist.drain_fail_at = frames
    /\ hist.fail_cycle_writes = 2
    /\ Len(sink) >= 2

\* C6 as stated: between any two consecutive submissions to the encoder
\* (frames or the end-of-stream marker) a drain poll returned "no packet
\* ready".
C6_Original ==
    /\ (pc = "send" /\ hist.submits >= 1) => hist.empty_seen
    /\ (hist.eos_submits = 1 /\ hist.submits >= 1) => hist.empty_before_eos

\* C6 amended: after a frame submission that succeeded and whose drain
\* reported no encode failure, a poll returned "no packet ready" before the
\* next submission (the next frame or the end-of-stream marker), and every
\* packet the encoder had ready in that cycle was polled and written before
\* it. The next frame is only ever submitted after such a cycle.
C6_DrainUntilEmpty ==
    /\ (pc = "send" /\ hist.submits >= 1) => NoLoopFailure
    /\ (pc \in {"send", "flush_send"} /\ hist.submits >= 1 /\ NoLoopFailure) =>
          /\ hist.empty_seen
          /\ enc_ready = 0
          /\ hist.cycle_writes = hist.cycle_ready
          /\ hist.cycle_polls = hist.cycle_ready + 1
          /\ sink = emitted

\* C6 witness: the next frame is about to be submitted after a cycle in
\* which the encoder had 3 packets ready and all 3 were written
C6_Witness ==
    /\ pc = "send"
    /\ hist.submits >= 1
    /\ hist.cycle_ready = 3
    /\ hist.cycle_writes = 3

\* C7: the sink holds the packets the encoder has returned so far, in
\* emission order, each once; the only packet returned and not yet in the
\* sink is the one the pump is about to write. So everything drained in a
\* cycle is written before the next submission, and a failed run keeps
\* every packet drained before the failure and during the flush.
C7_SinkIsEmissionOrder ==
    /\ \A a, b \in 1..Len(sink) : sink[a] = sink[b] => a = b
    /\ Len(sink) = hist.writes_loop + hist.writes_flush
    /\ IF pc \in {"write", "flush_write"}
       THEN packet # NULL /\ emitted = Append(sink, packet)
       ELSE sink = emitted

\* C7 witness: a run left by an encode failure has returned with packets
\* written in the loop and in the flush
C7_Witness ==
    /\ hist.returned
    /\ hist.drain_fail_at >= 1
    /\ hist.writes_loop >= 2
    /\ hist.writes_flush >= 1
    /\ Len(sink) >= 3

\* C8: with target_count = 0 the loop body never executes (no submission),
\* the flush runs exactly once and the run returns true if the flush had
\* no encode failure.
C8_ZeroTarget ==
    (hist.entered /\ frames = 0) =>
        /\ hist.submits = 0
        /\ ~InLoopBody
        /\ pulls <= WarmupFrames
        /\ hist.eos_submits <= 1
        /\ hist.returned =>
              /\ hist.eos_submits = 1
              /\ ~hist.flush_failed => status = TRUE

\* C8 witness: a run with target_count = 0 has returned true after a flush
\* that wrote two packets
C8_Witness ==
    /\ hist.returned
    /\ frames = 0
    /\ hist.submits = 0
    /\ hist.eos_submits = 1
    /\ hist.writes_flush = 2
    /\ status = TRUE

\* N = seconds x framerate, from the arguments
RequestedFrames == input[1] * input[2]

\* C9: in a run with no submission or encode failure, exactly N frames are
\* submitted before the flush, the packets emitted before the end-of-stream
\* marker are written in the per-frame loop and those emitted after it in
\* the flush, and the run returns true; with N = 30 and an encoder giving
\* one packet per two submissions and two on flush: 30 submissions, 15
\* packets written in the loop, 2 in the flush.
C9_FullRun ==
    (hist.returned /\ NoLoopFailure) =>
        /\ hist.submits = RequestedFrames
        /\ hist.submits_at_eos = RequestedFrames
        /\ hist.writes_loop = hist.emitted_at_eos
        /\ hist.writes_flush = Len(emitted) - hist.emitted_at_eos
        /\ sink = emitted
        /\ status = TRUE
        /\ (/\ RequestedFrames = 30
            /\ enc_kind = "one_per_two"
            /\ hist.eos_result = HVE_OK
            /\ ~hist.flush_failed) =>
              /\ hist.submits = 30
              /\ hist.writes_loop = 15
              /\ hist.writes_flush = 2

\* C9 for N >= 0: the same statement for the runs whose target count is
\* not negative
C9_FullRunNonNegative ==
    RequestedFrames >= 0 => C9_FullRun

\* C9 scenario: the 30 frame run has returned true with 15 packets written
\* in the loop and 2 in the flush
C9_Scenario ==
    /\ hist.returned
    /\ input = UsageInput
    /\ hist.submits = 30
    /\ hist.writes_loop = 15
    /\ hist.writes_flush = 2
    /\ status = TRUE

\* C10: the exit status is 1 for too few arguments, 2 for an output file
\* that cannot be opened, 3 for a failed encoder initialization, and 0
\* whenever main_loop was entered and returned, true or false; the success
\* message is printed only when main_loop returned true.
C10_ExitStatus ==
    /\ pc # "exit" => exit_code = NoExit
    /\ pc = "exit" =>
          /\ argc < 6 => exit_code = 1
          /\ hist.open_failed => exit_code = 2
          /\ hist.init_failed => exit_code = 3
          /\ hist.returned => exit_code = 0
          /\ exit_code \in {0, 1, 2, 3}
          /\ exit_code = 0 => hist.returned
    /\ (argc < 6 \/ hist.open_failed \/ hist.init_failed) => ~hist.entered
    /\ printed => hist.returned /\ status = TRUE
    /\ (pc = "exit" /\ hist.returned /\ status = TRUE) => printed

\* C10 witness: main has returned 0 after main_loop returned false, and
\* the success message was not printed
C10_Witness ==
    /\ pc = "exit"
    /\ hist.returned
    /\ status = FALSE
    /\ hist.send_fail_at >= 1
    /\ exit_code = 0
    /\ ~printed

C12_FlushDoesNotChangeResult ==
    /\ hist.eos_submits >= 1 => f = hist.f_at_eos
    /\ (hist.eos_submits >= 1 /\ pc # "flush_receive") => hist.cycle_polls >= 1
    /\ hist.returned =>
          /\ status = (hist.f_at_eos = frames)
          /\ hist.cycle_polls = hist.writes_flush + 1

\* C12 witness: the end-of-stream submission failed and a flush poll
\* reported an encode failure, and the run of 2 frames has returned true
C12_Witness ==
    /\ hist.returned
    /\ frames = 2
    /\ hist.eos_result = HVE_ERROR
    /\ hist.flush_failed
    /\ hist.cycle_polls >= 1
    /\ status = TRUE

\* C13: frames are submitted in the order pulled: the j-th frame given to
\* the encoder is the j-th frame pulled after the warm-up, so none is
\* skipped, repeated or out of order; a pull is followed by the submission
\* of that frame before the next pull (one frame at most is pulled and not
\* yet submitted, and only while the pump is about to submit it).
C13_SubmittedInPullOrder ==
    /\ Len(hist.submitted) = hist.submits
    /\ \A j \in 1..Len(hist.submitted) : hist.submitted[j] = i + j
    /\ pc = "send" => (frame_data = pulls /\ pulls = i + hist.submits + 1)
    /\ pc # "send" => pulls = i + hist.submits

\* C13 witness: 30 frames were submitted, the last one being pull number 40
C13_Witness ==
    /\ hist.returned
    /\ hist.submits = 30
    /\ hist.submitted[1] = 11
    /\ hist.submitted[30] = 40

C15_Terminates ==
    /\ hist.entered ~> hist.returned
    /\ [](hist.submits <= (IF frames > 0 THEN frames ELSE 0))
    /\ [](hist.eos_submits >= 1 =>
            hist.cycle_polls <= hist.ready_at_eos + hist.lag_at_eos + 1)

\* C15 witness: a run of 30 cycles has returned
C15_Witness ==
    /\ hist.returned
    /\ frames = 30
    /\ f = 30
    /\ hist.submits = 30

\* C16: if a configuration step fails (argc < 6, the output file cannot be
\* opened, hve_init returns NULL) the process ends before main_loop is
\* entered: no frame is pulled, not even for warm-up, nothing is submitted
\* to or polled from the encoder and nothing is written.
C16_ConfigErrorAbortsBeforeRun ==
    (argc < 6 \/ hist.open_failed \/ hist.init_failed) =>
        /\ ~hist.entered
        /\ pc \in {"args", "exit"}
        /\ pulls = 0
        /\ hist.submits = 0
        /\ hist.eos_submits = 0
        /\ hist.polls = 0
        /\ emitted = <<>>
        /\ sink = <<>>
        /\ pc = "exit" => exit_code # 0

\* C16 witness: hve_init failed and main has returned 3 without a pull
C16_Witness ==
    /\ pc = "exit"
    /\ hist.init_failed
    /\ argc >= 6
    /\ ~hist.open_failed
    /\ exit_code = 3
    /\ pulls = 0

\* positions whose next step is a call on the encoder (hve_send_frame,
\* hve_receive_packet, hve_close)
BeforeEncoderCall == pc \in {"send", "receive", "flush_send", "flush_receive", "close"}

\* C17: the pump holds at most one packet at a time: at most one returned
\* packet is not yet written, it is the one in `packet`, and whenever the
\* next step is a call on the encoder every returned packet is written.
C17_OnePacketAtATime ==
    /\ Len(emitted) - Len(sink) \in {0, 1}
    /\ Len(emitted) > Len(sink) =>
          /\ pc \in {"write", "flush_write"}
          /\ packet = emitted[Len(emitted)]
    /\ BeforeEncoderCall => Len(sink) = Len(emitted)

\* C17 witness: the flush drain is about to poll again after packets were
\* written in the loop and in the flush
C17_Witness ==
    /\ pc = "flush_receive"
    /\ hist.writes_loop >= 3
    /\ hist.writes_flush >= 1
    /\ Len(sink) = Len(emitted)
    /\ packet = sink[Len(sink)]

\* C18: the pump keeps no reference to a frame past its submission: once a
\* submission has returned (while draining, at the next loop test, during
\* the flush and at return) frame.data[0] holds no pointer to the frame
\* pulled before; it points at a frame only between a pull and its
\* submission.
C18_NoFrameReferenceAfterSubmission ==
    (hist.submits >= 1 /\ pc # "send") => frame_data = NULL

====
